---------------------------- MODULE Spec2Model ----------------------------
(***************************************************************************)
(* A model of package cspf (src/graph.go): the Graph store (AddNode,       *)
(* AddEdge), the Dijkstra-style SPF/CSPF computation and the depth-first   *)
(* path enumerator Paths.                                                  *)
(*                                                                         *)
(* A Graph value is its VertexSet (a function from vertices to the         *)
(* sequence of outgoing edges) together with its compiled constraint       *)
(* eval.  Every public method is one action; the iteration order of Go     *)
(* maps, which the language leaves unspecified, is a nondeterministic      *)
(* choice.                                                                 *)
(***************************************************************************)
EXTENDS Integers, Sequences, FiniteSets, TLC

(***************************************************************************)
(* Bounds of the model.                                                    *)
(***************************************************************************)
\* Largest number of edges the receiver graph is grown to when edges carry
\* tags (Spec).
MaxEdges == 2
\* Largest number of edges of a graph of untagged edges (SpecPlain).
MaxPlainEdges == 3
\* Largest number of tags of an AddEdge call (SpecStore).
MaxTags == 2
\* Largest number of edges of a graph that is called concurrently (SpecConc).
MaxConcEdges == 2
\* Largest edge cost passed to AddEdge.
MaxCost == 1
\* Width in bits of the modelled uint64 (Cost, distances): arithmetic is
\* modulo 2^WordBits, and infinity is the largest value.
WordBits == 6

\* Vertex IDs; "" is the zero Vertex{}.
Vertices == {"", "a", "b"}

Costs == 0..MaxCost

\* const infinity = uint64(math.MaxUint64), at the modelled width.
infinity == 2^WordBits - 1

\* uint64 addition.
AddU64(x, y) == (x + y) % (2^WordBits)

(***************************************************************************)
(* Tags and edges.                                                         *)
(***************************************************************************)
\* Edge.Tags left nil: no tag was given.
NoTags == [k \in {} |-> ""]

TagBlue == [Key |-> "link", Value |-> "blue"]
TagRed == [Key |-> "link", Value |-> "red"]
TagCap == [Key |-> "cap", Value |-> 2]

\* The tags ...Tag arguments AddEdge is called with.
TagLists == {<<>>, <<TagBlue>>, <<TagBlue, TagRed>>}

\* The tag lists of the graph store alone (SpecStore): every list of at
\* most MaxTags tags.
AllTagLists == UNION {[1..n -> {TagBlue, TagRed, TagCap}] : n \in 0..MaxTags}

\* m[key] = value
MapSet(m, key, value) == (key :> value) @@ m

\* The loop of AddEdge over tags[i..]: the map built, or the duplicate key.
RECURSIVE BuildTags(_, _, _)
BuildTags(tags, i, m) ==
  IF i > Len(tags) THEN [dup |-> FALSE, key |-> "", Tags |-> m]
  ELSE IF tags[i].Key \in DOMAIN m
       THEN [dup |-> TRUE, key |-> tags[i].Key, Tags |-> m]
       ELSE BuildTags(tags, i + 1, MapSet(m, tags[i].Key, tags[i].Value))

Edge(from, to, cost, tags) ==
  [From |-> from, To |-> to, Cost |-> cost, Tags |-> tags]

(***************************************************************************)
(* Graph store.  vs is a VertexSet: a function whose domain is the set of  *)
(* map keys.  A nil map and an empty map read alike.                       *)
(***************************************************************************)
EmptyVS == [v \in {} |-> <<>>]

\* g.VertexSet[v]: the zero value (nil slice) for a missing key.
EdgesOf(vs, v) == IF v \in DOMAIN vs THEN vs[v] ELSE <<>>

AddNodeVS(vs, v) ==
  IF v \in DOMAIN vs THEN vs ELSE MapSet(vs, v, <<>>)

addEdgeVS(vs, e) ==
  LET withNodes == AddNodeVS(AddNodeVS(vs, e.From), e.To)
  IN  MapSet(withNodes, e.From, Append(withNodes[e.From], e))

ErrNone == "nil"
ErrNilGraph == "NilGraph"
ErrDuplicateTagKey(key) == <<"DuplicateTagKey", key>>

\* An AddEdge that adds the endpoints before it validates the tags.
AddEdgeNodesFirst(vs, from, to, cost, tags) ==
  LET b == IF Len(tags) # 0 THEN BuildTags(tags, 1, NoTags)
           ELSE [dup |-> FALSE, key |-> "", Tags |-> NoTags]
      withNodes == AddNodeVS(AddNodeVS(vs, from), to)
  IN  IF b.dup
      THEN [err |-> ErrDuplicateTagKey(b.key), vs |-> withNodes]
      ELSE [err |-> <<ErrNone>>, vs |-> addEdgeVS(withNodes, Edge(from, to, cost, b.Tags))]

\* AddEdge as a function of the graph: the error returned and the graph left.
AddEdgeVS(vs, from, to, cost, tags) ==
  LET b == IF Len(tags) # 0 THEN BuildTags(tags, 1, NoTags)
           ELSE [dup |-> FALSE, key |-> "", Tags |-> NoTags]
  IN  IF b.dup
      THEN [err |-> ErrDuplicateTagKey(b.key), vs |-> vs]
      ELSE [err |-> <<ErrNone>>, vs |-> addEdgeVS(vs, Edge(from, to, cost, b.Tags))]

RECURSIVE SumLen(_, _)
SumLen(vs, S) ==
  IF S = {} THEN 0
  ELSE LET v == CHOOSE w \in S : TRUE IN Len(vs[v]) + SumLen(vs, S \ {v})

NumEdges(vs) == SumLen(vs, DOMAIN vs)

(***************************************************************************)
(* Paths: depth-first search.  st is the closure's state: the visited map, *)
(* the current path and the paths recorded so far.                         *)
(***************************************************************************)
RECURSIVE dfs(_, _, _, _, _, _)
RECURSIVE dfsRange(_, _, _, _, _)

\* path = path[1:] when the path is not empty.
PopPath(path) == IF Len(path) > 0 THEN Tail(path) ELSE path

\* A dfs that never resets visited[v] on the way back.
dfsKeepVisited(vs, to, v, hasEdge, edge, st) ==
  LET entered == [visited |-> st.visited \cup {v},
                  path |-> IF hasEdge THEN Append(st.path, edge) ELSE st.path,
                  paths |-> st.paths]
      scanned == IF v = to
                 THEN [entered EXCEPT !.paths = Append(@, entered.path)]
                 ELSE dfsRange(vs, to, v, 1, entered)
  IN  [visited |-> scanned.visited,
       path |-> PopPath(scanned.path),
       paths |-> scanned.paths]

\* dfs(v, edge): hasEdge is edge != nil.
dfs(vs, to, v, hasEdge, edge, st) ==
  LET entered == [visited |-> st.visited \cup {v},
                  path |-> IF hasEdge THEN Append(st.path, edge) ELSE st.path,
                  paths |-> st.paths]
      scanned == IF v = to
                 THEN [entered EXCEPT !.paths = Append(@, entered.path)]
                 ELSE dfsRange(vs, to, v, 1, entered)
  IN  [visited |-> scanned.visited \ {v},
       path |-> PopPath(scanned.path),
       paths |-> scanned.paths]

\* for _, edge := range g.VertexSet[v], from the i-th edge on.
dfsRange(vs, to, v, i, st) ==
  LET edges == EdgesOf(vs, v)
  IN  IF i > Len(edges) THEN st
      ELSE dfsRange(vs, to, v, i + 1,
                    IF edges[i].To \notin st.visited
                    THEN dfs(vs, to, edges[i].To, TRUE, edges[i], st)
                    ELSE st)

\* Paths on a non-nil graph.
PathsVS(vs, from, to) ==
  dfs(vs, to, from, FALSE, Edge("", "", 0, NoTags),
      [visited |-> {}, path |-> <<>>, paths |-> <<>>]).paths

(***************************************************************************)
(* Constraint expressions.  The expression engine (gval) is an external    *)
(* library: an expression either fails to compile or compiles to a         *)
(* predicate that, on an edge's Tags, yields a boolean or fails.  The       *)
(* expressions below are the ones CSPF is called with; EvalBool tabulates   *)
(* their outcome on a tag map (a missing key reads as nil).                 *)
(***************************************************************************)
ExpEqBlue == "link == \"blue\""
ExpNeBlue == "link != \"blue\""
ExpCap == "link != \"blue\" || cap > 1"
ExpBadSyntax == "link == \"blue\" or link == \"redblue\""

Exps == {ExpEqBlue, ExpNeBlue, ExpCap, ExpBadSyntax}

ErrParse == "ParseError"
ErrEval == "EvalError"

\* g.eval == nil
NoEval == "nil"

\* gval.Full().NewEvaluable(exp): the Evaluable, or the parse error.
NewEvaluable(exp) ==
  IF exp = ExpBadSyntax THEN [err |-> <<ErrParse>>, eval |-> NoEval]
  ELSE [err |-> <<ErrNone>>, eval |-> exp]

HasLink(tags, value) == "link" \in DOMAIN tags /\ tags["link"] = value

\* g.eval.EvalBool(ctx, e.Tags)
EvalBool(ev, tags) ==
  CASE ev = ExpEqBlue -> [err |-> <<ErrNone>>, match |-> HasLink(tags, "blue")]
    [] ev = ExpNeBlue -> [err |-> <<ErrNone>>, match |-> ~HasLink(tags, "blue")]
    [] ev = ExpCap ->
         \* || yields true when its left side does; cap > 1 fails on nil
         IF ~HasLink(tags, "blue") THEN [err |-> <<ErrNone>>, match |-> TRUE]
         ELSE IF "cap" \in DOMAIN tags
              THEN [err |-> <<ErrNone>>, match |-> tags["cap"] > 1]
              ELSE [err |-> <<ErrEval>>, match |-> FALSE]

\* An edgeSatisfiesConstranints that drops the boolean EvalBool yields.
edgeIgnoresMatch(ev, e) ==
  IF ev = NoEval THEN [err |-> <<ErrNone>>, match |-> TRUE]
  ELSE [err |-> EvalBool(ev, e.Tags).err, match |-> TRUE]

edgeSatisfiesConstranints(ev, e) ==
  IF ev = NoEval THEN [err |-> <<ErrNone>>, match |-> TRUE]
  ELSE LET r == EvalBool(ev, e.Tags)
       IN  IF r.err # <<ErrNone>> THEN [err |-> r.err, match |-> FALSE]
           ELSE [err |-> <<ErrNone>>, match |-> r.match]

(***************************************************************************)
(* SPF.                                                                    *)
(***************************************************************************)
\* The vertices getSmallestDistanceVertex can return: ranging over the map
\* in any order with a strict <, it keeps the first vertex it meets among
\* those of least distance, and the zero Vertex when none is below infinity.
getSmallestDistanceVertex(unvisited, distSet) ==
  LET finite == {v \in unvisited : distSet[v] < infinity}
  IN  IF finite = {} THEN {""}
      ELSE {v \in finite : \A w \in finite : distSet[v] <= distSet[w]}

\* The relaxation loop over g.VertexSet[closestVertex], from the i-th edge
\* on; unvisited no longer holds closestVertex.
RECURSIVE Relax(_, _, _, _, _, _, _)
Relax(vs, ev, closestVertex, unvisited, distSet, prevSet, i) ==
  LET edges == EdgesOf(vs, closestVertex)
  IN  IF i > Len(edges)
      THEN [err |-> <<ErrNone>>, distSet |-> distSet, prevSet |-> prevSet]
      ELSE LET edge == edges[i]
               sat == edgeSatisfiesConstranints(ev, edge)
               distFromNeighbor == AddU64(distSet[closestVertex], edge.Cost)
           IN  IF edge.To \notin unvisited
               THEN Relax(vs, ev, closestVertex, unvisited, distSet, prevSet, i + 1)
               ELSE IF sat.err # <<ErrNone>>
               THEN [err |-> sat.err, distSet |-> distSet, prevSet |-> prevSet]
               ELSE IF sat.match /\ distFromNeighbor <= distSet[edge.To]
               THEN Relax(vs, ev, closestVertex, unvisited,
                          MapSet(distSet, edge.To, distFromNeighbor),
                          MapSet(prevSet, edge.To, Append(prevSet[edge.To], edge)),
                          i + 1)
               ELSE Relax(vs, ev, closestVertex, unvisited, distSet, prevSet, i + 1)

\* The main loop: every [err, distSet, prevSet] it can end with.
RECURSIVE SPFLoop(_, _, _, _, _)
SPFLoop(vs, ev, unvisited, distSet, prevSet) ==
  IF unvisited = {}
  THEN {[err |-> <<ErrNone>>, distSet |-> distSet, prevSet |-> prevSet]}
  ELSE UNION {
         IF closestVertex \notin unvisited
         THEN \* no progress on the unvisited set: break
              {[err |-> <<ErrNone>>, distSet |-> distSet, prevSet |-> prevSet]}
         ELSE LET r == Relax(vs, ev, closestVertex, unvisited \ {closestVertex},
                             distSet, prevSet, 1)
              IN  IF r.err # <<ErrNone>> THEN {r}
                  ELSE SPFLoop(vs, ev, unvisited \ {closestVertex},
                               r.distSet, r.prevSet)
         : closestVertex \in getSmallestDistanceVertex(unvisited, distSet) }

\* distSet after the initialisation loop and distSet[from] = 0.
InitDist(vs, from) ==
  [v \in (DOMAIN vs) \cup {from} |-> IF v = from THEN 0 ELSE infinity]

InitPrev(vs) == [v \in DOMAIN vs |-> <<>>]

RECURSIVE Perms(_)
Perms(S) ==
  IF S = {} THEN {<<>>}
  ELSE UNION {{<<x>> \o p : p \in Perms(S \ {x})} : x \in S}

RECURSIVE addEdges(_, _, _)
addEdges(vs, edges, i) ==
  IF i > Len(edges) THEN vs ELSE addEdges(addEdgeVS(vs, edges[i]), edges, i + 1)

\* for _, edges := range prevSet, in the key order given.
RECURSIVE BuildSPF(_, _, _, _)
BuildSPF(vs, prevSet, order, i) ==
  IF i > Len(order) THEN vs
  ELSE BuildSPF(addEdges(vs, prevSet[order[i]], 1), prevSet, order, i + 1)

\* A *Graph: nil, or a Graph with its VertexSet and eval.
NilGraph == [isNil |-> TRUE, VertexSet |-> EmptyVS, eval |-> NoEval]
GraphOf(vs, ev) == [isNil |-> FALSE, VertexSet |-> vs, eval |-> ev]

\* The result graphs built from a final prevSet.
SPFGraphs(prevSet, from, to) ==
  IF to \in DOMAIN prevSet \/ to = from
  THEN {GraphOf(BuildSPF(EmptyVS, prevSet, order, 1), NoEval)
          : order \in Perms(DOMAIN prevSet)}
  ELSE {GraphOf(EmptyVS, NoEval)}

\* An SPF that returns, with the error, the graph relaxed so far.
SPFOutcomesPartial(vs, ev, from, to) ==
  UNION {
    {[graph |-> g, err |-> r.err] : g \in SPFGraphs(r.prevSet, from, to)}
    : r \in SPFLoop(vs, ev, DOMAIN vs, InitDist(vs, from), InitPrev(vs)) }

\* Every (graph, err) SPF can return on the non-nil graph (vs, ev).
SPFOutcomes(vs, ev, from, to) ==
  UNION {
    IF r.err # <<ErrNone>> THEN {[graph |-> NilGraph, err |-> r.err]}
    ELSE {[graph |-> g, err |-> <<ErrNone>>] : g \in SPFGraphs(r.prevSet, from, to)}
    : r \in SPFLoop(vs, ev, DOMAIN vs, InitDist(vs, from), InitPrev(vs)) }

(***************************************************************************)
(* The methods as functions of the receiver.  Each yields what the call    *)
(* returns together with vs, the receiver's VertexSet as the call leaves   *)
(* it, and for CSPF the receiver's eval.                                   *)
(***************************************************************************)
\* An SPF that stores the VertexSet it built in the receiver.
SPFCallInPlace(isNil, vs, ev, from, to) ==
  IF isNil THEN {[graph |-> NilGraph, err |-> <<ErrNilGraph>>, vs |-> vs]}
  ELSE {[graph |-> r.graph, err |-> r.err,
         vs |-> IF r.graph.isNil THEN vs ELSE r.graph.VertexSet]
          : r \in SPFOutcomes(vs, ev, from, to)}

\* SPF on a *Graph: isNil says the receiver is nil.
SPFCall(isNil, vs, ev, from, to) ==
  IF isNil THEN {[graph |-> NilGraph, err |-> <<ErrNilGraph>>, vs |-> vs]}
  ELSE {[graph |-> r.graph, err |-> r.err, vs |-> vs]
          : r \in SPFOutcomes(vs, ev, from, to)}

\* A CSPF that uses the predicate for its own search only.
CSPFCallScoped(isNil, vs, ev, from, to, exp) ==
  LET c == NewEvaluable(exp)
  IN  IF isNil
      THEN {[eval |-> ev, graph |-> NilGraph, err |-> <<ErrNilGraph>>, vs |-> vs]}
      ELSE IF c.err # <<ErrNone>>
      THEN {[eval |-> ev, graph |-> NilGraph, err |-> c.err, vs |-> vs]}
      ELSE {[eval |-> ev, graph |-> r.graph, err |-> r.err, vs |-> r.vs]
              : r \in SPFCall(FALSE, vs, c.eval, from, to)}

\* CSPF on a *Graph.
CSPFCall(isNil, vs, ev, from, to, exp) ==
  LET c == NewEvaluable(exp)
  IN  IF isNil
      THEN {[eval |-> ev, graph |-> NilGraph, err |-> <<ErrNilGraph>>, vs |-> vs]}
      ELSE IF c.err # <<ErrNone>>
      THEN {[eval |-> ev, graph |-> NilGraph, err |-> c.err, vs |-> vs]}
      ELSE {[eval |-> c.eval, graph |-> r.graph, err |-> r.err, vs |-> r.vs]
              : r \in SPFCall(FALSE, vs, c.eval, from, to)}

\* Paths on a *Graph.
PathsCall(graph, from, to) ==
  IF graph.isNil THEN [paths |-> <<>>, vs |-> graph.VertexSet]
  ELSE [paths |-> PathsVS(graph.VertexSet, from, to), vs |-> graph.VertexSet]

(***************************************************************************)
(* The state: the receiver graph g (its VertexSet and eval), what the last *)
(* call was given and returned (ret), and lastExp, the history of g: the   *)
(* expression of the last CSPF call on g that compiled.                    *)
(*                                                                         *)
(* The calls are made one after the other by a single caller, as in the    *)
(* tests: a call starts when the values of the previous one have been      *)
(* dropped (Discard), except Paths on the graph an SPF/CSPF call has just   *)
(* returned, which is asked for the paths between the vertices of that     *)
(* call.  What a call does never depends on ret otherwise.                 *)
(***************************************************************************)
VARIABLES VertexSet, eval, ret, lastExp, calls

vars == <<VertexSet, eval, ret, lastExp, calls>>

\* The goroutines that call g concurrently (SpecConc); in the other
\* specifications there is the single caller and calls stays as Init sets it.
Threads == {1, 2}

IdleCall == [pc |-> "idle"]

\* var graph cspf.Graph
Init ==
  /\ VertexSet = EmptyVS
  /\ eval = NoEval
  /\ ret = [op |-> "none"]
  /\ lastExp = NoEval
  /\ calls = [t \in Threads |-> IdleCall]

Idle == ret.op = "none"

\* The caller drops what the last call returned.
Discard ==
  /\ ~Idle
  /\ ret' = [op |-> "none"]
  /\ UNCHANGED <<VertexSet, eval, lastExp, calls>>

\* g.AddNode(v)
AddNode(v) ==
  /\ Idle
  /\ VertexSet' = AddNodeVS(VertexSet, v)
  /\ ret' = [op |-> "AddNode"]
  /\ UNCHANGED <<eval, lastExp, calls>>

\* err := g.AddEdge(from, to, cost, tags...)
AddEdge(from, to, cost, tags) ==
  /\ Idle
  /\ LET r == AddEdgeVS(VertexSet, from, to, cost, tags)
     IN  /\ VertexSet' = r.vs
         /\ ret' = [op |-> "AddEdge", err |-> r.err]
  /\ UNCHANGED <<eval, lastExp, calls>>

\* The *Graph a call is made on: g, a nil pointer, or the graph the last
\* SPF/CSPF call returned.
Receiver(recv) ==
  CASE recv = "g" -> GraphOf(VertexSet, eval)
    [] recv = "nil" -> NilGraph
    [] recv = "ret" -> ret.graph

\* What ret keeps of a call: the arguments are kept when the receiver read
\* them, that is, when it was not nil.
Called(op, recv, isNil, args, results) ==
  [op |-> op, recv |-> recv] @@ (IF isNil THEN results ELSE args @@ results)

\* spfGraph, err := g.SPF(from, to), on g or on a nil *Graph
SPF(recv, from, to) ==
  /\ Idle
  /\ \E r \in SPFCall(recv = "nil", VertexSet, eval, from, to) :
       /\ ret' = Called("SPF", recv, recv = "nil", [from |-> from, to |-> to],
                        [graph |-> r.graph, err |-> r.err])
       /\ VertexSet' = IF recv = "g" THEN r.vs ELSE VertexSet
  /\ UNCHANGED <<eval, lastExp, calls>>

\* spfGraph, err := g.CSPF(from, to, exp), on g or on a nil *Graph
CSPF(recv, from, to, exp) ==
  /\ Idle
  /\ \E r \in CSPFCall(recv = "nil", VertexSet, eval, from, to, exp) :
       /\ ret' = Called("CSPF", recv, recv = "nil",
                        [from |-> from, to |-> to, exp |-> exp],
                        [graph |-> r.graph, err |-> r.err])
       /\ VertexSet' = IF recv = "g" THEN r.vs ELSE VertexSet
       /\ eval' = IF recv = "g" THEN r.eval ELSE eval
  /\ lastExp' = IF recv = "g" /\ exp # ExpBadSyntax THEN exp ELSE lastExp
  /\ UNCHANGED calls

\* paths := graph.Paths(from, to), on g, on a nil *Graph or on the graph
\* the last SPF/CSPF call returned
Paths(recv, from, to) ==
  /\ IF recv = "ret" THEN ret.op \in {"SPF", "CSPF"} ELSE Idle
  /\ LET r == PathsCall(Receiver(recv), from, to)
     IN  /\ ret' = Called("Paths", recv, Receiver(recv).isNil,
                          [from |-> from, to |-> to],
                          [graph |-> Receiver(recv), paths |-> r.paths])
         /\ VertexSet' = IF recv = "g" THEN r.vs ELSE VertexSet
  /\ UNCHANGED <<eval, lastExp, calls>>

Receivers == {"g", "nil"}

Next ==
  \/ Discard
  \/ \E v \in Vertices : AddNode(v)
  \/ \E from, to \in Vertices, cost \in Costs, tags \in TagLists :
       NumEdges(VertexSet) < MaxEdges /\ AddEdge(from, to, cost, tags)
  \/ \E recv \in Receivers, from, to \in Vertices : SPF(recv, from, to)
  \/ \E recv \in Receivers, from, to \in Vertices, exp \in Exps :
       CSPF(recv, from, to, exp)
  \/ \E recv \in Receivers, from, to \in Vertices : Paths(recv, from, to)
  \/ /\ ret.op \in {"SPF", "CSPF"}
     /\ \E from, to \in Vertices :
          /\ IF ret.recv = "nil" THEN TRUE ELSE from = ret.from /\ to = ret.to
          /\ Paths("ret", from, to)

Spec == Init /\ [][Next]_vars

\* Graphs of untagged edges, queried with SPF and Paths.
NextPlain ==
  \/ Discard
  \/ \E v \in Vertices : AddNode(v)
  \/ \E from, to \in Vertices, cost \in Costs :
       NumEdges(VertexSet) < MaxPlainEdges /\ AddEdge(from, to, cost, <<>>)
  \/ \E from, to \in Vertices : SPF("g", from, to)
  \/ \E from, to \in Vertices : Paths("g", from, to)

SpecPlain == Init /\ [][NextPlain]_vars

\* The graph store alone, with every list of tags.
NextStore ==
  \/ Discard
  \/ \E v \in Vertices : AddNode(v)
  \/ \E from, to \in Vertices, cost \in Costs, tags \in AllTagLists :
       NumEdges(VertexSet) < MaxEdges /\ AddEdge(from, to, cost, tags)

SpecStore == Init /\ [][NextStore]_vars

(***************************************************************************)
(* Concurrent calls on one Graph.  Each goroutine of Threads runs one call *)
(* at a time.  SPF and CSPF keep unvisitedSet, distSet and prevSet in      *)
(* locals; what they share is g.VertexSet, which they only read, and       *)
(* g.eval, which CSPF writes and edgeSatisfiesConstranints reads with no   *)
(* synchronisation.  A call is cut where it touches g.eval: the write of   *)
(* CSPF (Begin) and the reads of each relaxed edge (RelaxEdge).  Paths     *)
(* reads g.VertexSet only and is one step.  The graph is changed only      *)
(* while no call runs.                                                     *)
(***************************************************************************)
ConcVertices == {"a", "b"}

ConcTagLists == {<<>>, <<TagBlue>>}

\* The expression goroutine t calls CSPF with: the two differ.
ConcExp(t) == IF t = 1 THEN ExpEqBlue ELSE ExpNeBlue

ErrPanic == "panic"

\* An SPF that clears the predicate of the Graph it is called on.
WritesEvalAlways(op) == op \in {"CSPF", "SPF"}

\* The calls that assign g.eval.
WritesEval(op) == op = "CSPF"

Active(t) == calls[t].pc # "idle"

AllIdle == \A t \in Threads : ~Active(t)

\* The values an unsynchronised read of g.eval by the call of t can yield:
\* the last write that happens before it (its own, else the value g.eval
\* had when the calls were started) or the write of a call it races with.
ReadEval(t) ==
  {IF calls[t].wrote THEN calls[t].exp ELSE calls[t].ev0}
    \cup {calls[u].exp : u \in {w \in Threads \ {t} : Active(w) /\ calls[w].wrote}}

\* edgeSatisfiesConstranints in the call of t: g.eval is read for the nil
\* test and read again for the call of EvalBool; calling a nil func panics.
SatOutcomes(t, e) ==
  UNION {
    IF first = NoEval THEN {[err |-> <<ErrNone>>, match |-> TRUE]}
    ELSE {IF second = NoEval THEN [err |-> <<ErrPanic>>, match |-> FALSE]
          ELSE edgeSatisfiesConstranints(second, e) : second \in ReadEval(t)}
    : first \in ReadEval(t) }

\* The call of t has returned graph and err.
Finished(c, graph, err) ==
  [pc |-> "done", op |-> c.op, from |-> c.from, to |-> c.to, exp |-> c.exp,
   ev0 |-> c.ev0, wrote |-> c.wrote, saw |-> c.saw,
   graph |-> graph, err |-> err, paths |-> <<>>]

\* go g.SPF(from, to) / g.CSPF(from, to, exp) / g.Paths(from, to): the call
\* up to the first selection.  saw records that a call writing g.eval ran
\* while this one did.
Begin(t, op, from, to) ==
  /\ Idle
  /\ ~Active(t)
  /\ \A u \in Threads : calls[u].pc # "done"
  /\ LET exp == IF op = "CSPF" THEN ConcExp(t) ELSE NoEval
         running == {u \in Threads : Active(u)}
         ev0 == IF running = {} THEN eval
                ELSE calls[CHOOSE u \in running : TRUE].ev0
         c == NewEvaluable(exp)
         writes == WritesEval(op) /\ c.err = <<ErrNone>>
         start == [op |-> op, from |-> from, to |-> to, exp |-> exp, ev0 |-> ev0,
                   wrote |-> writes,
                   saw |-> \E u \in running : calls[u].wrote]
         seen == [u \in Threads |->
                    IF Active(u) /\ calls[u].pc # "done" /\ writes
                    THEN [calls[u] EXCEPT !.saw = TRUE] ELSE calls[u]]
     IN  /\ calls' =
              [seen EXCEPT ![t] =
                 IF op = "Paths"
                 THEN [Finished(start, GraphOf(VertexSet, eval), <<ErrNone>>)
                         EXCEPT !.paths = PathsVS(VertexSet, from, to)]
                 ELSE IF WritesEval(op) /\ ~writes
                 THEN Finished(start, NilGraph, c.err)
                 ELSE [pc |-> "select", unvisited |-> DOMAIN VertexSet,
                       distSet |-> InitDist(VertexSet, from),
                       prevSet |-> InitPrev(VertexSet),
                       closestVertex |-> "", i |-> 0] @@ start]
         /\ eval' = IF writes THEN c.eval ELSE eval
         /\ lastExp' = IF writes THEN exp ELSE lastExp
  /\ UNCHANGED <<VertexSet, ret>>

\* One pass of the loop head: the loop ends (and the result is built) or a
\* vertex is selected and removed from unvisitedSet.
Select(t) ==
  /\ calls[t].pc = "select"
  /\ LET c == calls[t]
         build == {[calls EXCEPT ![t] = Finished(c, g, <<ErrNone>>)]
                     : g \in SPFGraphs(c.prevSet, c.from, c.to)}
     IN  IF c.unvisited = {} THEN calls' \in build
         ELSE \E closestVertex \in getSmallestDistanceVertex(c.unvisited, c.distSet) :
                IF closestVertex \notin c.unvisited THEN calls' \in build
                ELSE calls' =
                       [calls EXCEPT ![t] =
                          [c EXCEPT !.unvisited = @ \ {closestVertex},
                                    !.closestVertex = closestVertex,
                                    !.i = 1,
                                    !.pc = IF EdgesOf(VertexSet, closestVertex) = <<>>
                                           THEN "select" ELSE "relax"]]
  /\ UNCHANGED <<VertexSet, eval, ret, lastExp>>

\* One pass of the relaxation loop: the i-th edge of closestVertex.
RelaxEdge(t) ==
  /\ calls[t].pc = "relax"
  /\ LET c == calls[t]
         edges == EdgesOf(VertexSet, c.closestVertex)
         edge == edges[c.i]
         distFromNeighbor == AddU64(c.distSet[c.closestVertex], edge.Cost)
         advance == [c EXCEPT !.i = @ + 1,
                              !.pc = IF c.i = Len(edges) THEN "select" ELSE "relax"]
     IN  IF edge.To \notin c.unvisited
         THEN calls' = [calls EXCEPT ![t] = advance]
         ELSE \E sat \in SatOutcomes(t, edge) :
                calls' =
                  [calls EXCEPT ![t] =
                     IF sat.err # <<ErrNone>> THEN Finished(c, NilGraph, sat.err)
                     ELSE IF sat.match /\ distFromNeighbor <= c.distSet[edge.To]
                     THEN [advance EXCEPT
                             !.distSet = MapSet(@, edge.To, distFromNeighbor),
                             !.prevSet = MapSet(@, edge.To, Append(@[edge.To], edge))]
                     ELSE advance]
  /\ UNCHANGED <<VertexSet, eval, ret, lastExp>>

\* The caller waits for the calls it started.
Join ==
  /\ ~AllIdle
  /\ \A t \in Threads : calls[t].pc \in {"idle", "done"}
  /\ calls' = [t \in Threads |-> IdleCall]
  /\ UNCHANGED <<VertexSet, eval, ret, lastExp>>

NextConc ==
  \/ Discard
  \/ \E from, to \in ConcVertices, cost \in Costs, tags \in ConcTagLists :
       AllIdle /\ NumEdges(VertexSet) < MaxConcEdges /\ AddEdge(from, to, cost, tags)
  \/ \E t \in Threads, op \in {"SPF", "CSPF", "Paths"}, from, to \in ConcVertices :
       Begin(t, op, from, to)
  \/ \E t \in Threads : Select(t)
  \/ \E t \in Threads : RelaxEdge(t)
  \/ Join

SpecConc == Init /\ [][NextConc]_vars

(***************************************************************************)
(* Definitions the properties are stated with: paths and costs of a graph, *)
(* defined on the graph itself and not through the algorithms above.       *)
(***************************************************************************)
\* The edges of a graph as occurrences: <<v, i>> is the i-th edge of v.
Refs(vs) == UNION {{<<v, i>> : i \in 1..Len(vs[v])} : v \in DOMAIN vs}

EdgeAt(vs, r) == vs[r[1]][r[2]]

EdgeSet(vs) == {EdgeAt(vs, r) : r \in Refs(vs)}

\* The vertices a sequence of edge occurrences visits when it starts at from.
Visits(vs, p, from) == [j \in 0..Len(p) |-> IF j = 0 THEN from ELSE EdgeAt(vs, p[j]).To]

\* p is a simple path of vs from from to to: consecutive edges, no vertex
\* visited twice.
IsSimplePath(vs, p, from, to) ==
  LET at == Visits(vs, p, from)
  IN  /\ \A j \in 1..Len(p) : EdgeAt(vs, p[j]).From = at[j - 1]
      /\ \A j, k \in 0..Len(p) : j # k => at[j] # at[k]
      /\ at[Len(p)] = to

\* A simple path visits Len(p) + 1 distinct vertices, the first one being
\* from and the others being targets of edges, hence keys of vs.
SimplePaths(vs, from, to) ==
  {p \in UNION {[1..k -> Refs(vs)] : k \in 0..Cardinality(DOMAIN vs)} :
     IsSimplePath(vs, p, from, to)}

RECURSIVE PathCost(_, _)
PathCost(vs, p) ==
  IF p = <<>> THEN 0 ELSE EdgeAt(vs, Head(p)).Cost + PathCost(vs, Tail(p))

Reachable(vs, from, to) == SimplePaths(vs, from, to) # {}

\* The least cost of a path from from to to (costs are not negative, so a
\* cheapest path can be taken simple).
MinCost(vs, from, to) ==
  LET costs == {PathCost(vs, p) : p \in SimplePaths(vs, from, to)}
  IN  CHOOSE c \in costs : \A d \in costs : c <= d

\* The edge satisfies the constraint ev.
Satisfies(ev, e) == ev = NoEval \/ EvalBool(ev, e.Tags).match

\* ev yields a boolean on every edge of vs.
BooleanOn(ev, vs) ==
  ev = NoEval \/ \A e \in EdgeSet(vs) : EvalBool(ev, e.Tags).err = <<ErrNone>>

\* The subsequence of the edges that satisfy ev.
RECURSIVE Keep(_, _)
Keep(ev, edges) ==
  IF edges = <<>> THEN <<>>
  ELSE IF Satisfies(ev, Head(edges)) THEN <<Head(edges)>> \o Keep(ev, Tail(edges))
       ELSE Keep(ev, Tail(edges))

\* The graph with the vertices of vs and the edges of vs that satisfy ev.
Prune(vs, ev) == [v \in DOMAIN vs |-> Keep(ev, vs[v])]

\* The call ret records was made on g and returned no error.
Returned(ops) == ret.op \in ops /\ ret.recv = "g" /\ ret.err = <<ErrNone>>

(***************************************************************************)
(* C1.  Every path Paths(from, to) returns is a connected walk from from   *)
(* to to made of edges of the graph: a path that is not empty starts with  *)
(* an edge leaving from, ends with an edge entering to, and each edge      *)
(* enters the vertex the next one leaves.                                  *)
(***************************************************************************)
IsWalk(vs, path, from, to) ==
  /\ \A j \in 1..Len(path) : path[j] \in EdgeSet(vs)
  /\ Len(path) > 0 => path[1].From = from /\ path[Len(path)].To = to
  /\ \A j \in 1..Len(path) - 1 : path[j].To = path[j + 1].From

C1_PathsAreWalks ==
  (ret.op = "Paths" /\ ret.recv = "g") =>
    \A i \in 1..Len(ret.paths) : IsWalk(VertexSet, ret.paths[i], ret.from, ret.to)

(***************************************************************************)
(* C2.  The graph SPF(from, to) returns holds shortest paths only: every   *)
(* path from from to to in the result costs what the cheapest path from    *)
(* from to to costs in the source graph.                                   *)
(***************************************************************************)
C2_OnlyShortestPaths ==
  Returned({"SPF"}) =>
    \A p \in SimplePaths(ret.graph.VertexSet, ret.from, ret.to) :
      PathCost(ret.graph.VertexSet, p) = MinCost(VertexSet, ret.from, ret.to)

(***************************************************************************)
(* C3.  The graph SPF(from, to) returns holds all the shortest paths of    *)
(* equal cost: every edge of every cheapest path from from to to through   *)
(* edges that satisfy the constraint is an edge of the result, whatever    *)
(* vertex the tie-break picks.  (The claim asks it of every edge u->v with *)
(* u reachable and mincost(u) + cost = mincost(v); the edges of a cheapest *)
(* path from from to to are such edges.)                                   *)
(***************************************************************************)
C3_AllShortestPaths ==
  Returned({"SPF"}) =>
    LET src == Prune(VertexSet, eval)
    IN  \A p \in SimplePaths(src, ret.from, ret.to) :
          PathCost(src, p) = MinCost(src, ret.from, ret.to) =>
            \A j \in 1..Len(p) : EdgeAt(src, p[j]) \in EdgeSet(ret.graph.VertexSet)

(***************************************************************************)
(* C4.  When to is not reachable from from through edges that satisfy the  *)
(* constraint and from # to, SPF and CSPF return a nil error and an empty  *)
(* Graph: no vertex, no edge.  It is stated for the graphs in which the    *)
(* zero Vertex, if present, is reachable from from: an unreachable zero    *)
(* Vertex is what getSmallestDistanceVertex returns when it finds none.    *)
(***************************************************************************)
C4_UnreachableGivesEmpty ==
  (/\ Returned({"SPF", "CSPF"})
   /\ "" \in DOMAIN VertexSet => Reachable(Prune(VertexSet, eval), ret.from, "")
   /\ ret.from # ret.to
   /\ ~Reachable(Prune(VertexSet, eval), ret.from, ret.to)) =>
    ~ret.graph.isNil /\ ret.graph.VertexSet = EmptyVS

(***************************************************************************)
(* C5.  CSPF is pruning followed by plain SPF: when exp compiles and       *)
(* yields a boolean on every edge of g, the results CSPF(from, to, exp)    *)
(* can return on g are the results SPF(from, to) can return on the graph   *)
(* with the vertices of g and the edges of g that satisfy exp; and no edge *)
(* that fails exp is in the result of CSPF.                                *)
(***************************************************************************)
Outcome(r) == [graph |-> r.graph, err |-> r.err]

C5_CSPFIsSPFOnPruned ==
  (/\ ret.op = "CSPF" /\ ret.recv = "g"
   /\ ret.exp # ExpBadSyntax
   /\ BooleanOn(ret.exp, VertexSet)) =>
    LET cspf == {Outcome(r) : r \in CSPFCall(FALSE, VertexSet, NoEval,
                                             ret.from, ret.to, ret.exp)}
        spf == {Outcome(r) : r \in SPFCall(FALSE, Prune(VertexSet, ret.exp), NoEval,
                                           ret.from, ret.to)}
    IN  /\ cspf = spf
        /\ Outcome(ret) \in spf
        /\ \A e \in EdgeSet(ret.graph.VertexSet) : Satisfies(ret.exp, e)

\* A CSPF call whose expression some edge of g fails returned edges.
C5_Witness ==
  /\ Returned({"CSPF"})
  /\ BooleanOn(ret.exp, VertexSet)
  /\ \E e \in EdgeSet(VertexSet) : ~Satisfies(ret.exp, e)
  /\ EdgeSet(ret.graph.VertexSet) # {}

(***************************************************************************)
(* C6.  The predicate persists across calls: the predicate installed on g  *)
(* is the one of the last CSPF call on g whose expression compiled, and a  *)
(* later plain SPF call on g returns only edges that satisfy it; on a      *)
(* Graph on which no CSPF call compiled, every edge satisfies.             *)
(***************************************************************************)
C6_PredicatePersists ==
  /\ eval = lastExp
  /\ (ret.op = "SPF" /\ ret.recv = "g" /\ ~ret.graph.isNil) =>
       \A e \in EdgeSet(ret.graph.VertexSet) : Satisfies(lastExp, e)
  /\ lastExp = NoEval =>
       \A e \in EdgeSet(VertexSet) :
         edgeSatisfiesConstranints(eval, e) = [err |-> <<ErrNone>>, match |-> TRUE]

\* A plain SPF call after a CSPF call whose expression an edge of g fails.
C6_Witness ==
  /\ Returned({"SPF"})
  /\ lastExp # NoEval
  /\ \E e \in EdgeSet(VertexSet) : ~Satisfies(lastExp, e)
  /\ EdgeSet(ret.graph.VertexSet) # {}

(***************************************************************************)
(* C7.  AddEdge with two tags of the same key returns an error wrapping    *)
(* ErrDuplicateTagKey that names the key, and leaves the graph as it was;  *)
(* with keys that differ pairwise it returns nil, makes both endpoints     *)
(* vertices of the graph and appends one edge at the end of from's list.   *)
(***************************************************************************)
HasDuplicateKey(tags) ==
  \E i, j \in 1..Len(tags) : i < j /\ tags[i].Key = tags[j].Key

\* The key of the first tag that repeats the key of an earlier one.
FirstDuplicateKey(tags) ==
  LET repeats == {j \in 1..Len(tags) : \E i \in 1..j - 1 : tags[i].Key = tags[j].Key}
  IN  tags[CHOOSE j \in repeats : \A k \in repeats : j <= k].Key

\* The map of tags whose keys differ pairwise.
TagMap(tags) ==
  [k \in {tags[i].Key : i \in 1..Len(tags)} |->
     (CHOOSE t \in {tags[i] : i \in 1..Len(tags)} : t.Key = k).Value]

AddEdgePost(from, to, cost, tags) ==
  IF HasDuplicateKey(tags)
  THEN /\ ret'.err = <<"DuplicateTagKey", FirstDuplicateKey(tags)>>
       /\ VertexSet' = VertexSet
  ELSE /\ ret'.err = <<ErrNone>>
       /\ DOMAIN VertexSet' = (DOMAIN VertexSet) \cup {from, to}
       /\ VertexSet'[from] =
            Append(EdgesOf(VertexSet, from), Edge(from, to, cost, TagMap(tags)))
       /\ \A v \in (DOMAIN VertexSet') \ {from} : VertexSet'[v] = EdgesOf(VertexSet, v)

C7_AddEdgeValidatesFirst ==
  [][\A from, to \in Vertices, cost \in Costs, tags \in AllTagLists :
       AddEdge(from, to, cost, tags) => AddEdgePost(from, to, cost, tags)]_vars

\* A call with a duplicate key was made on a graph that has edges.
C7_Witness ==
  /\ ret.op = "AddEdge"
  /\ ret.err = <<"DuplicateTagKey", "link">>
  /\ NumEdges(VertexSet) > 0

(***************************************************************************)
(* C8.  When SPF or CSPF returns an error (nil receiver, expression that   *)
(* does not parse, predicate that fails on an edge during relaxation) the  *)
(* graph it returns is nil; and Paths on a nil graph returns no path.      *)
(***************************************************************************)
C8_NoGraphWithError ==
  /\ (ret.op \in {"SPF", "CSPF"} /\ ret.err # <<ErrNone>>) =>
       /\ ret.graph.isNil
       /\ ret.err \in {<<ErrNilGraph>>, <<ErrParse>>, <<ErrEval>>}
  /\ (ret.op = "Paths" /\ ret.graph.isNil) => ret.paths = <<>>

\* The predicate failed on an edge of a graph that has an edge satisfying it.
C8_Witness ==
  /\ ret.op = "CSPF" /\ ret.recv = "g"
  /\ ret.err = <<ErrEval>>
  /\ \E e \in EdgeSet(VertexSet) : Satisfies(ret.exp, e)

(***************************************************************************)
(* C9.  Paths(from, to) ends on every graph, cycles and parallel edges     *)
(* included, and returns one entry per simple path from from to to: as     *)
(* many paths as there are simple paths, none when to is unreachable, and  *)
(* the one path of no edge when from = to.                                 *)
(***************************************************************************)
C9_OnePathPerSimplePath ==
  (ret.op = "Paths" /\ ret.recv = "g") =>
    /\ Len(ret.paths) = Cardinality(SimplePaths(VertexSet, ret.from, ret.to))
    /\ ~Reachable(VertexSet, ret.from, ret.to) => ret.paths = <<>>
    /\ ret.from = ret.to => ret.paths = << <<>> >>

\* Two paths were returned on a graph with a cycle.
C9_Witness ==
  /\ ret.op = "Paths" /\ ret.recv = "g"
  /\ Len(ret.paths) >= 2
  /\ \E r \in Refs(VertexSet) :
       Reachable(VertexSet, EdgeAt(VertexSet, r).To, EdgeAt(VertexSet, r).From)

(***************************************************************************)
(* C10.  SPF, CSPF and Paths leave the receiver's VertexSet as it was:     *)
(* the same vertices and, for each, the same edges in the same order,      *)
(* whether the call fails or not.                                          *)
(***************************************************************************)
C10_ReceiverUnchanged ==
  [][ret'.op \in {"SPF", "CSPF", "Paths"} => VertexSet' = VertexSet]_vars

\* SPF or CSPF built a graph with edges.
C10_Witness ==
  /\ Returned({"SPF", "CSPF"})
  /\ EdgeSet(ret.graph.VertexSet) # {}

(***************************************************************************)
(* C11.  Concurrent calls on one Graph.  A call during which no other call *)
(* assigned g.eval (SPF and Paths calls running concurrently, the graph    *)
(* not being changed) returns what the same call can return when it runs   *)
(* alone.  Two CSPF calls with different expressions race on g.eval:       *)
(* C11_Witness is the interleaving in which the relaxation of one reads    *)
(* the predicate of the other and returns a graph it cannot return alone.  *)
(***************************************************************************)
\* What the call c can return when it runs alone on g.
AloneOutcomes(c) ==
  IF c.op = "SPF"
  THEN {Outcome(r) : r \in SPFCall(FALSE, VertexSet, c.ev0, c.from, c.to)}
  ELSE {Outcome(r) : r \in CSPFCall(FALSE, VertexSet, c.ev0, c.from, c.to, c.exp)}

SameAsAlone(c) ==
  IF c.op = "Paths"
  THEN c.paths = PathsCall(GraphOf(VertexSet, c.ev0), c.from, c.to).paths
  ELSE Outcome(c) \in AloneOutcomes(c)

C11_NoRaceWithoutCSPF ==
  \A t \in Threads :
    (calls[t].pc = "done" /\ ~calls[t].saw) => SameAsAlone(calls[t])

\* Both goroutines called CSPF and the one whose predicate was overwritten
\* returned a graph it cannot return alone.
C11_Witness ==
  \E t \in Threads :
    /\ \A u \in Threads : calls[u].pc = "done" /\ calls[u].op = "CSPF"
    /\ calls[t].err = <<ErrNone>>
    /\ eval # calls[t].exp
    /\ ~SameAsAlone(calls[t])

\* Two calls that assign nothing to g.eval ran concurrently.
C11_WitnessReaders ==
  /\ \A u \in Threads : calls[u].pc = "done" /\ calls[u].op \in {"SPF", "Paths"}
  /\ \E u \in Threads : calls[u].op = "SPF" /\ EdgeSet(calls[u].graph.VertexSet) # {}

(***************************************************************************)
(* C12.  The SPF result is deterministic as a set: for a fixed graph, from *)
(* and to, every result SPF can return (whatever vertex is selected among  *)
(* the unvisited vertices of least distance, whatever the order the maps   *)
(* are ranged in) has the same set of edges.  Stated on the graphs in      *)
(* which the zero Vertex, if present, is reachable from from.              *)
(***************************************************************************)
C12_SameEdgesForEveryTieBreak ==
  (/\ Returned({"SPF"})
   /\ "" \in DOMAIN VertexSet => Reachable(VertexSet, ret.from, "")) =>
    \A r \in SPFOutcomes(VertexSet, eval, ret.from, ret.to) :
      r.err = <<ErrNone>> =>
        EdgeSet(r.graph.VertexSet) = EdgeSet(ret.graph.VertexSet)

(***************************************************************************)
(* C13.  The SPF loop stops as soon as every unvisited vertex is at        *)
(* distance infinity: no such vertex is selected and relaxed, so no edge   *)
(* that leaves a vertex unreachable from from is in the result, on every   *)
(* graph, the ones that hold the zero Vertex included.                     *)
(***************************************************************************)
C13_NoEdgeFromUnreachable ==
  Returned({"SPF"}) =>
    \A e \in EdgeSet(ret.graph.VertexSet) : Reachable(VertexSet, ret.from, e.From)

=============================================================================
